---- MODULE Spec2Model ----
(***************************************************************************)
(* Model of the fantasy dashboard of THE-HUB: the scoring function         *)
(* calculateFantasyPoints, the trend aggregation of fetchTrendData, the    *)
(* scoring toggle, the flat table's cells, filters, detail panel and        *)
(* refresh, and the salary join of process_stats; and of the identity      *)
(* core the backend is specified to                                        *)
(* have: the Name Normalizer, the Identity Matcher and the Mapping Cache.  *)
(*                                                                         *)
(* Numbers.  Fantasy points are kept as exact integers: the unrounded sum  *)
(* in hundredths of a point (0.04 is 4), and the result of toFixed(1) in   *)
(* tenths of a point ("0.1" is 1).  Every term of the sum is an even       *)
(* number of hundredths, so the sum is never half-way between two tenths   *)
(* and the binary rounding error of the JavaScript doubles cannot change   *)
(* the digit toFixed(1) produces.                                          *)
(*                                                                         *)
(* Rows.  A row is a function from field names to values; a field that is  *)
(* undefined/null in JavaScript (NULL in SQL) is a field outside the       *)
(* row's DOMAIN.                                                           *)
(***************************************************************************)
EXTENDS Integers, Sequences, FiniteSets, TLC

VARIABLES
    isPPR,              \* useState(true): full PPR (TRUE) or half PPR (FALSE)
    activeTab,          \* useState('data-table')
    trendFilters,       \* useState({team, startWeek, endWeek, season})
    trendData,          \* useState([]): the array built by fetchTrendData
    loading,            \* useState(false)
    trendCalls,         \* fetchTrendData calls awaiting Promise.all, oldest first
    player_stats,       \* backend table player_stats, in storage order
    draftkings_pricing, \* backend table draftkings_pricing
    players,            \* useState([]): rows of the flat table
    fpts,               \* FPTS column of the grid: valueGetter applied to each row
    csvData,            \* rows last written by exportData
    rawName,            \* the name last handed to the Name Normalizer
    normalized,         \* its successive normalizations, oldest first
    mappingCache,       \* Mapping Cache: the NameMappings recorded so far
    matchResult,        \* candidate and result of the last match call
    cacheOps,           \* record() and lookup() calls in progress
    filters,            \* useState({season, week, position, team, minSalary, minSnaps})
    searchTerm,         \* useState('')
    selectedPlayer,     \* useState(null): the row last clicked
    playerDetailOpen,   \* useState(false)
    playerGameHistory,  \* useState([])
    refreshing,         \* useState(false)
    playersCalls,       \* GET /api/players requests of the flat table awaiting a response, oldest first
    timers,             \* pending setTimeout callbacks of handleFilterChange, oldest first
    historyCalls,       \* fetchPlayerGameHistory calls awaiting a response, oldest first
    refreshCalls,       \* POST /api/refresh-data requests awaiting a response, oldest first
    errorToast          \* the message of the last toast.error, "" before the first

\* the state of the identity core (normalizer, matcher, mapping cache)
coreVars == <<rawName, normalized, mappingCache, matchResult, cacheOps>>

\* the state of the flat table's filters, detail panel and refresh
dashVars == <<filters, searchTerm, selectedPlayer, playerDetailOpen,
              playerGameHistory, refreshing, playersCalls, timers,
              historyCalls, refreshCalls>>

vars == <<isPPR, activeTab, trendFilters, trendData, loading, trendCalls,
          player_stats, draftkings_pricing, players, fpts, csvData,
          rawName, normalized, mappingCache, matchResult, cacheOps,
          filters, searchTerm, selectedPlayer, playerDetailOpen,
          playerGameHistory, refreshing, playersCalls, timers,
          historyCalls, refreshCalls, errorToast>>

\* the identity core before any call: nothing normalized, matched or recorded
CoreIdle ==
    /\ rawName = <<>>
    /\ normalized = <<>>
    /\ mappingCache = {}
    /\ matchResult = {}
    /\ cacheOps = {}

\* const [filters, setFilters] = useState({...})
InitFilters ==
    [season |-> "2025", week |-> "4", position |-> "QB", team |-> "all",
     minSalary |-> "", minSnaps |-> ""]

\* null
Null == [null |-> TRUE]

\* the flat table before its first effect has run: the initial useState
\* values, no request sent, no timer set
DashIdle ==
    /\ filters = InitFilters
    /\ searchTerm = ""
    /\ selectedPlayer = Null
    /\ playerDetailOpen = FALSE
    /\ playerGameHistory = <<>>
    /\ refreshing = FALSE
    /\ playersCalls = <<>>
    /\ timers = <<>>
    /\ historyCalls = <<>>
    /\ refreshCalls = <<>>
    /\ errorToast = ""

----------------------------------------------------------------------------
(* Bounds of the model *)

\* largest passing_yards of a scored row
MaxYards == 3
\* largest value of every other counting stat of a scored row
MaxStat == 1
\* largest number of requests of one kind (and of timers) outstanding at once
MaxInFlight == 2
\* largest number of rows of player_stats in SpecTrend and SpecRecon
MaxRows == 2
\* largest number of rows of draftkings_pricing in SpecRecon
MaxPricing == 2
\* most trailing suffix tokens of a name handed to the normalizer
MaxSuffixes == 2
\* most times a name is normalized in a row
MaxPasses == 2
\* most record() calls in progress at once
MaxWriters == 2

----------------------------------------------------------------------------
(* Rows and optional fields *)

\* JavaScript `row.f || 0` for a numeric field: undefined, null and 0 give 0
OrZero(row, f) == IF f \in DOMAIN row THEN row[f] ELSE 0

\* an optional value drawn from S: <<>> (absent) or <<v>>
Opt(S) == {<<>>} \cup {<<v>> : v \in S}

\* the row holding exactly the fields of r that are present
Strip(r) == [f \in {g \in DOMAIN r : r[g] # <<>>} |-> r[f][1]]

\* the row with field f set to v (object spread {...row, f: v})
With(row, f, v) == [g \in DOMAIN row \cup {f} |-> IF g = f THEN v ELSE row[g]]

----------------------------------------------------------------------------
(* Scoring: calculateFantasyPoints *)

\* the unrounded sum `points` of calculateFantasyPoints, in hundredths
PointsHundredths(player, ppr) ==
      OrZero(player, "passing_yards") * 4
    + OrZero(player, "passing_tds") * 400
    + OrZero(player, "interceptions") * (-100)
    + OrZero(player, "rushing_yards") * 10
    + OrZero(player, "rushing_tds") * 600
    + OrZero(player, "receiving_yards") * 10
    + OrZero(player, "receiving_tds") * 600
    + OrZero(player, "receptions") * (IF ppr THEN 100 ELSE 50)
    + OrZero(player, "fumbles_lost") * (-100)

\* mutant: toFixed(0), the score rounded to whole points
toFixed0(h) ==
    LET a == IF h < 0 THEN -h ELSE h
        n == (a + 50) \div 100
    IN  [neg |-> h < 0, whole |-> n, tenth |-> 0]

\* Number.prototype.toFixed(1) applied to h hundredths: the decimal string
\* sign, whole part, one digit; the digit is the nearest tenth of |h|
\* (the larger one on a tie) and a negative h keeps its "-" even when the
\* digits are "0.0"
toFixed1(h) ==
    LET a == IF h < 0 THEN -h ELSE h
        n == (a + 5) \div 10
    IN  [neg |-> h < 0, whole |-> n \div 10, tenth |-> n % 10]

\* `parseFloat(s) || 0` of a toFixed(1) string: the number, in tenths
\* ("-0.0" parses to -0, which `|| 0` turns into 0)
parseFloatOrZero(s) ==
    LET n == s.whole * 10 + s.tenth
    IN  IF s.neg THEN -n ELSE n

\* calculateFantasyPoints(player) evaluated in a render whose isPPR is ppr:
\* `return points.toFixed(1)`
calculateFantasyPoints(player, ppr) == toFixed1(PointsHundredths(player, ppr))

\* the rows scored in SpecScore: every counting stat absent or in its range,
\* passing yards up to yards and the other stats up to stat
ScoredRows(yards, stat) ==
    {Strip(r) : r \in
        [passing_yards   : Opt(0..yards),
         passing_tds     : Opt(0..stat),
         interceptions   : Opt(0..stat),
         rushing_yards   : Opt(0..stat),
         rushing_tds     : Opt(0..stat),
         receiving_yards : Opt(0..stat),
         receiving_tds   : Opt(0..stat),
         receptions      : Opt(0..stat),
         fumbles_lost    : Opt(0..stat)]}

----------------------------------------------------------------------------
(* The flat table *)

\* FPTS column, valueGetter: (params) => calculateFantasyPoints(params.data),
\* for every row of the grid, in the render whose isPPR is ppr
FptsColumn(rows, ppr) ==
    [i \in DOMAIN rows |-> calculateFantasyPoints(rows[i], ppr)]

\* Scoring select, onValueChange: setIsPPR(value === 'ppr').  columnDefs is
\* memoised on isPPR, so the render that follows re-evaluates the FPTS
\* column; trendData is not a dependency of anything that runs here.
SetIsPPR(value) ==
    /\ isPPR' = (value = "ppr")
    /\ fpts' = FptsColumn(players, isPPR')
    /\ UNCHANGED <<dashVars, errorToast, activeTab, trendFilters, trendData, loading, trendCalls,
                   player_stats, draftkings_pricing, players, csvData,
                   coreVars>>

ScoringValues == {"ppr", "half-ppr"}

----------------------------------------------------------------------------
(* SpecScore: the grid showing one row of ScoredRows, scored in the first   *)
(* render and again whenever the scoring mode is set                       *)

InitTrendFilters ==
    [team |-> "NYG", startWeek |-> 4, endWeek |-> 6, season |-> "2025"]

InitScore ==
    /\ isPPR = TRUE
    /\ activeTab = "data-table"
    /\ trendFilters = InitTrendFilters
    /\ trendData = <<>>
    /\ loading = FALSE
    /\ trendCalls = <<>>
    /\ player_stats = <<>>
    /\ draftkings_pricing = {}
    /\ players \in {<<p>> : p \in ScoredRows(MaxYards, MaxStat)}
    /\ fpts = FptsColumn(players, isPPR)
    /\ csvData = <<>>
    /\ CoreIdle
    /\ DashIdle

NextScore == \E value \in ScoringValues : SetIsPPR(value)

SpecScore == InitScore /\ [][NextScore]_vars

----------------------------------------------------------------------------
(* Backend: the salary join of process_stats and the /api/players response *)

\* the elements of a finite set as a sequence, in some fixed order
RECURSIVE SetToSeq(_)
SetToSeq(S) ==
    IF S = {} THEN <<>>
    ELSE LET x == CHOOSE y \in S : TRUE IN <<x>> \o SetToSeq(S \ {x})

\* SQL `a.f = b.f`: true only when both sides are non-NULL and equal
SqlEq(a, b, f) == f \in DOMAIN a /\ f \in DOMAIN b /\ a[f] = b[f]

\* ON ps.player_name = dp.player_name AND ps.week = dp.week
\*    AND ps.season = dp.season
JoinCondition(ps, dp) ==
    /\ SqlEq(ps, dp, "player_name")
    /\ SqlEq(ps, dp, "week")
    /\ SqlEq(ps, dp, "season")

\* SELECT ps.*, dp.salary as dk_salary for one ps row of the LEFT JOIN: one
\* output row per matching dp row, and one row with dk_salary NULL when no
\* dp row matches
JoinedRows(ps) ==
    LET matches == {dp \in draftkings_pricing : JoinCondition(ps, dp)}
        out(dp) == IF "salary" \in DOMAIN dp
                   THEN With(ps, "dk_salary", dp.salary) ELSE ps
    IN  IF matches = {} THEN <<ps>>
        ELSE SetToSeq({out(dp) : dp \in matches})

\* the LEFT JOIN over the rows of a table, in table order
RECURSIVE LeftJoin(_)
LeftJoin(rows) ==
    IF rows = <<>> THEN <<>>
    ELSE JoinedRows(Head(rows)) \o LeftJoin(Tail(rows))

\* process_stats(season, week): WHERE ps.season = {season}, and
\* AND ps.week = {week} `if week:` (week 0 stands for None)
process_stats(season, week) ==
    LET keep(ps) == /\ "season" \in DOMAIN ps /\ ps.season = season
                    /\ (week # 0 => ("week" \in DOMAIN ps /\ ps.week = week))
    IN  LeftJoin(SelectSeq(player_stats, keep))

\* the integer a season string of the frontend denotes
SeasonNumber(season) == IF season = "2024" THEN 2024 ELSE 2025

\* GET /api/players?season=&week=&team= : the joined rows of that season and
\* week whose team is the requested one
GetPlayers(season, week, team) ==
    LET ofTeam(row) == "team" \in DOMAIN row /\ row.team = team
    IN  SelectSeq(process_stats(SeasonNumber(season), week), ofTeam)

----------------------------------------------------------------------------
(* The trend tool: fetchTrendData *)

\* the key of playerMap: `${player.player_name}-${player.position}`
PlayerKey(player) == <<player.player_name, player.position>>

\* the week entry stored for a row:
\* {...player, fantasy_points: parseFloat(calculateFantasyPoints(player)) || 0}
WeekEntry(player, ppr) ==
    With(player, "fantasy_points",
         parseFloatOrZero(calculateFantasyPoints(player, ppr)))

\* one pass of weekData.forEach: playerMap (in insertion order) after the row
\* `player` of week weekNum
AddPlayer(map, weekNum, player, ppr) ==
    LET has == \E i \in DOMAIN map : PlayerKey(map[i]) = PlayerKey(player)
        m1  == IF has THEN map
               ELSE Append(map, [player_name |-> player.player_name,
                                 position    |-> player.position,
                                 team        |-> player.team,
                                 weeks       |-> <<>>])
        at  == CHOOSE i \in DOMAIN m1 : PlayerKey(m1[i]) = PlayerKey(player)
        wk  == m1[at].weeks
        wk2 == [w \in DOMAIN wk \cup {weekNum} |->
                    IF w = weekNum THEN WeekEntry(player, ppr) ELSE wk[w]]
    IN  [m1 EXCEPT ![at].weeks = wk2]

\* weekData.forEach(player => ...)
RECURSIVE AddWeekData(_, _, _, _)
AddWeekData(map, weekNum, weekData, ppr) ==
    IF weekData = <<>> THEN map
    ELSE AddWeekData(AddPlayer(map, weekNum, Head(weekData), ppr),
                     weekNum, Tail(weekData), ppr)

\* mutant: the week number counted from the index alone
WeekNumFromIndex(startWeek, index) == index + 1

\* weekNum = trendFilters.startWeek + index
WeekNum(startWeek, index) == startWeek + index

\* results.forEach((response, index) => ...), index counting from 0
RECURSIVE AddResults(_, _, _, _, _)
AddResults(map, results, startWeek, index, ppr) ==
    IF index >= Len(results) THEN map
    ELSE AddResults(
            AddWeekData(map, WeekNum(startWeek, index), results[index + 1], ppr),
            results, startWeek, index + 1, ppr)

\* const posOrder = ['QB', 'RB', 'WR', 'TE']
posOrder == <<"QB", "RB", "WR", "TE">>

\* Array.prototype.indexOf: 0-based place of x, -1 when x is not in arr
indexOf(arr, x) ==
    IF \E i \in DOMAIN arr : arr[i] = x
    THEN (CHOOSE i \in DOMAIN arr :
            arr[i] = x /\ \A j \in DOMAIN arr : arr[j] = x => i <= j) - 1
    ELSE -1

\* the player names of the model, in alphabetical (collation) order
NamesInOrder ==
    <<"Dak Prescott", "Daniel Jones", "Evan Engram", "Odell Beckham",
      "Odell Beckham Jr.", "Saquon Barkley">>

\* String.prototype.localeCompare on the names of the model
localeCompare(a, b) ==
    LET d == indexOf(NamesInOrder, a) - indexOf(NamesInOrder, b)
    IN  IF d < 0 THEN -1 ELSE IF d > 0 THEN 1 ELSE 0

\* mutant: the comparator without the position branch
CompareTrendByName(a, b) == localeCompare(a.player_name, b.player_name)

\* the comparator of the trendArray sort
CompareTrend(a, b) ==
    IF a.position # b.position
    THEN indexOf(posOrder, a.position) - indexOf(posOrder, b.position)
    ELSE localeCompare(a.player_name, b.player_name)

\* x put into the sorted sequence s after every element that does not
\* come after it (the sort is stable)
RECURSIVE InsertSorted(_, _)
InsertSorted(s, x) ==
    IF s = <<>> THEN <<x>>
    ELSE IF CompareTrend(Head(s), x) <= 0
         THEN <<Head(s)>> \o InsertSorted(Tail(s), x)
         ELSE <<x>> \o s

\* Array.prototype.sort with the comparator CompareTrend
RECURSIVE SortTrend(_)
SortTrend(arr) ==
    IF arr = <<>> THEN <<>>
    ELSE InsertSorted(SortTrend(SubSeq(arr, 1, Len(arr) - 1)), arr[Len(arr)])

\* the requests of one call: one per week of
\* `for (week = startWeek; week <= endWeek; week++)`, in loop order
TrendResults(f) ==
    [i \in 1..(IF f.endWeek >= f.startWeek
               THEN f.endWeek - f.startWeek + 1 ELSE 0) |->
        GetPlayers(f.season, f.startWeek + i - 1, f.team)]

\* trendArray of a call that captured the filters f and the mode ppr
BuildTrend(f, ppr) ==
    SortTrend(AddResults(<<>>, TrendResults(f), f.startWeek, 0, ppr))

\* fetchTrendData up to `await Promise.all(promises)`: setLoading(true) and
\* the requests are sent; the call keeps the trendFilters and the
\* calculateFantasyPoints (so the isPPR) of the render that started it
StartFetchTrendData(f) ==
    /\ loading' = TRUE
    /\ trendCalls' = Append(trendCalls, [filters |-> f, isPPR |-> isPPR])

\* fetchTrendData after the await, every request fulfilled:
\* setTrendData(trendArray) and, in finally, setLoading(false)
FetchTrendDataDone(c) ==
    /\ c \in DOMAIN trendCalls
    /\ trendData' = BuildTrend(trendCalls[c].filters, trendCalls[c].isPPR)
    /\ loading' = FALSE
    /\ trendCalls' = SubSeq(trendCalls, 1, c - 1)
                     \o SubSeq(trendCalls, c + 1, Len(trendCalls))
    /\ UNCHANGED <<dashVars, errorToast, isPPR, activeTab, trendFilters, player_stats,
                   draftkings_pricing, players, fpts, csvData,
                   coreVars>>

\* mutant: the catch block also stores what the fulfilled requests returned
CatchTrendErrorPartial(c) ==
    /\ errorToast' = "Error loading trend data"
    /\ trendData' = BuildTrend(trendCalls[c].filters, trendCalls[c].isPPR)

\* catch (error): console.error and toast.error('Error loading trend data');
\* setTrendData is not reached
CatchTrendError(c) ==
    /\ errorToast' = "Error loading trend data"
    /\ UNCHANGED trendData

\* fetchTrendData after the await, a request rejected: the catch block only
\* reports the error; finally setLoading(false)
FetchTrendDataFailed(c) ==
    /\ c \in DOMAIN trendCalls
    /\ Len(TrendResults(trendCalls[c].filters)) > 0
    /\ CatchTrendError(c)
    /\ loading' = FALSE
    /\ trendCalls' = SubSeq(trendCalls, 1, c - 1)
                     \o SubSeq(trendCalls, c + 1, Len(trendCalls))
    /\ UNCHANGED <<dashVars, isPPR, activeTab, trendFilters, player_stats,
                   draftkings_pricing, players, fpts, csvData,
                   coreVars>>

\* the effect on [trendFilters, activeTab], run after a render in which one
\* of them changed: `if (activeTab === 'trend-tool') fetchTrendData()`
TrendEffect(tab, f) ==
    IF tab = "trend-tool"
    THEN /\ Len(trendCalls) < MaxInFlight
         /\ StartFetchTrendData(f)
    ELSE UNCHANGED <<loading, trendCalls>>

\* the tab buttons: onClick={() => setActiveTab(tab)}
SetActiveTab(tab) ==
    /\ tab # activeTab
    /\ activeTab' = tab
    /\ TrendEffect(tab, trendFilters)
    /\ UNCHANGED <<dashVars, errorToast, isPPR, trendFilters, trendData, player_stats,
                   draftkings_pricing, players, fpts, csvData,
                   coreVars>>

\* the selects of the trend tool, rendered while the trend tab is shown:
\* onValueChange={(value) => setTrendFilters(prev => ({...prev, [field]: value}))}
SetTrendFilters(field, value) ==
    /\ activeTab = "trend-tool"
    /\ trendFilters[field] # value
    /\ trendFilters' = [trendFilters EXCEPT ![field] = value]
    /\ TrendEffect(activeTab, trendFilters')
    /\ UNCHANGED <<dashVars, errorToast, isPPR, activeTab, trendData, player_stats,
                   draftkings_pricing, players, fpts, csvData,
                   coreVars>>

\* the Scoring select is part of the data-table tab
ToggleScoring(value) ==
    /\ activeTab = "data-table"
    /\ SetIsPPR(value)

\* the weeks offered by the week selects that the model uses: the weeks of
\* the initial window
TrendWeeks == InitTrendFilters.startWeek .. InitTrendFilters.endWeek

\* the teams of NFL_TEAMS that the model uses
TrendTeams == {"NYG", "DAL"}

----------------------------------------------------------------------------
(* The rows of player_stats used by the trend specifications *)

\* players of the stats feed: name, position and team as the feed spells
\* them; OB is spelled in two ways, and DJ and D2 are two players of one
\* name, position and team
Roster ==
    {[player_id |-> "DJ", player_name |-> "Daniel Jones",      position |-> "QB", team |-> "NYG"],
     [player_id |-> "SB", player_name |-> "Saquon Barkley",    position |-> "RB", team |-> "NYG"],
     [player_id |-> "OB", player_name |-> "Odell Beckham Jr.", position |-> "WR", team |-> "NYG"],
     [player_id |-> "OB", player_name |-> "Odell Beckham",     position |-> "WR", team |-> "NYG"],
     [player_id |-> "EE", player_name |-> "Evan Engram",       position |-> "TE", team |-> "NYG"],
     [player_id |-> "DP", player_name |-> "Dak Prescott",      position |-> "QB", team |-> "DAL"],
     [player_id |-> "D2", player_name |-> "Daniel Jones",      position |-> "QB", team |-> "NYG"]}

\* the box score of a roster player in a week
StatLine(pl, week) ==
    IF pl.position = "QB"
    THEN [passing_yards |-> 250 + week, passing_tds |-> 1, interceptions |-> 1]
    ELSE IF pl.position = "RB"
    THEN [rushing_yards |-> 80 + week, rushing_tds |-> 1, receptions |-> 1,
          receiving_yards |-> 7]
    ELSE IF pl.position = "WR"
    THEN [receptions |-> week + 1, receiving_yards |-> 70 + week]
    ELSE [receptions |-> 3, receiving_yards |-> 31, receiving_tds |-> 1]

\* the player_stats row of a roster player in a week of season 2025
StatsRow(pl, week) ==
    LET line == StatLine(pl, week)
        id   == [player_id |-> pl.player_id, player_name |-> pl.player_name,
                 position |-> pl.position, team |-> pl.team,
                 week |-> week, season |-> 2025]
    IN  [f \in DOMAIN id \cup DOMAIN line |->
            IF f \in DOMAIN id THEN id[f] ELSE line[f]]

StatsUniverse == {StatsRow(pl, w) : pl \in Roster, w \in TrendWeeks}

\* PRIMARY KEY (player_id, week, season) of player_stats
StatsKey(row) == <<row.player_id, row.week, row.season>>

\* the tables of exactly k rows of U that respect the primary key, in every
\* storage order
RECURSIVE StatsTables(_, _)
StatsTables(U, k) ==
    IF k = 0 THEN {<<>>}
    ELSE UNION {{Append(t, r) :
                    r \in {x \in U :
                             \A i \in DOMAIN t : StatsKey(t[i]) # StatsKey(x)}} :
                t \in StatsTables(U, k - 1)}

----------------------------------------------------------------------------
(* SpecTrend: one fetchTrendData call over every small player_stats table *)

InitTrend ==
    /\ isPPR = TRUE
    /\ activeTab = "data-table"
    /\ trendFilters \in [team : TrendTeams, startWeek : TrendWeeks,
                         endWeek : TrendWeeks, season : {"2025"}]
    /\ trendData = <<>>
    /\ loading = FALSE
    /\ trendCalls = <<>>
    /\ player_stats \in UNION {StatsTables(StatsUniverse, k) : k \in 0..MaxRows}
    /\ draftkings_pricing = {}
    /\ players = <<>>
    /\ fpts = <<>>
    /\ csvData = <<>>
    /\ CoreIdle
    /\ DashIdle

NextTrend ==
    \/ SetActiveTab("trend-tool")
    \/ \E c \in DOMAIN trendCalls : FetchTrendDataDone(c)
    \/ \E c \in DOMAIN trendCalls : FetchTrendDataFailed(c)

SpecTrend == InitTrend /\ [][NextTrend]_vars

----------------------------------------------------------------------------
(* Spec: the trend tool and the scoring toggle over a fixed player_stats *)

\* the player_stats table of Spec, in storage order
SeedStats ==
    LET pl(name) == CHOOSE p \in Roster : p.player_name = name
    IN  <<StatsRow(pl("Saquon Barkley"), 4),
          StatsRow(pl("Odell Beckham Jr."), 4),
          StatsRow(pl("Daniel Jones"), 4),
          StatsRow(pl("Dak Prescott"), 4),
          StatsRow(pl("Odell Beckham"), 5),
          StatsRow(pl("Daniel Jones"), 5),
          StatsRow(pl("Evan Engram"), 6)>>

Init ==
    /\ isPPR = TRUE
    /\ activeTab = "data-table"
    /\ trendFilters = InitTrendFilters
    /\ trendData = <<>>
    /\ loading = FALSE
    /\ trendCalls = <<>>
    /\ player_stats = SeedStats
    /\ draftkings_pricing = {}
    /\ players = <<>>
    /\ fpts = <<>>
    /\ csvData = <<>>
    /\ CoreIdle
    /\ DashIdle

Next ==
    \/ \E tab \in {"data-table", "trend-tool"} : SetActiveTab(tab)
    \/ \E team \in TrendTeams : SetTrendFilters("team", team)
    \/ \E week \in TrendWeeks : SetTrendFilters("startWeek", week)
    \/ \E week \in TrendWeeks : SetTrendFilters("endWeek", week)
    \/ \E value \in ScoringValues : ToggleScoring(value)
    \/ \E c \in DOMAIN trendCalls : FetchTrendDataDone(c)
    \/ \E c \in DOMAIN trendCalls : FetchTrendDataFailed(c)

Spec == Init /\ [][Next]_vars

----------------------------------------------------------------------------
(* Cells and export of the reconciled rows *)

\* a rendered cell: the text '-' or a number
Dash == <<"-">>
Num(n) == <<"number", n>>

\* '# Snaps' column, field snap_percentage:
\* params.value && params.value > 0 ? Math.round(params.value) : '-'
SnapsCell(row) ==
    IF "snap_percentage" \in DOMAIN row /\ row.snap_percentage > 0
    THEN Num(row.snap_percentage) ELSE Dash

\* trend summary cell: weekData?.snap_count || weekData?.snap_percentage || '-'
TrendSnapsCell(weekData) ==
    IF "snap_count" \in DOMAIN weekData /\ weekData.snap_count # 0
    THEN Num(weekData.snap_count)
    ELSE IF "snap_percentage" \in DOMAIN weekData /\ weekData.snap_percentage # 0
    THEN Num(weekData.snap_percentage) ELSE Dash

\* trend summary cell:
\* weekData?.dk_salary ? `$${(weekData.dk_salary/1000).toFixed(1)}k` : '-'
\* (the salary shown in hundreds of dollars)
TrendSalaryCell(weekData) ==
    IF "dk_salary" \in DOMAIN weekData /\ weekData.dk_salary # 0
    THEN Num((weekData.dk_salary + 50) \div 100) ELSE Dash

\* player detail panel: Snap Count: {selectedPlayer?.snap_percentage || 0}
DetailSnapCount(selected) == OrZero(selected, "snap_percentage")

\* one row of csvData in exportData
ExportRow(player, ppr) ==
    LET base == [Fantasy_Points  |-> calculateFantasyPoints(player, ppr),
                 Rushing_Yards   |-> OrZero(player, "rushing_yards"),
                 Receiving_Yards |-> OrZero(player, "receiving_yards"),
                 Passing_Yards   |-> OrZero(player, "passing_yards"),
                 DK_Salary       |-> OrZero(player, "dk_salary")]
        copy == [Player |-> "player_name", Team |-> "team",
                 Position |-> "position", Snaps |-> "snap_percentage"]
        kept == {c \in DOMAIN copy : copy[c] \in DOMAIN player}
    IN  [c \in DOMAIN base \cup kept |->
            IF c \in DOMAIN base THEN base[c] ELSE player[copy[c]]]

\* exportData: csvData = filteredPlayers.map(...), with no search term and
\* player type 'all'; Object.keys(csvData[0]) throws when there is no row
exportData ==
    /\ players # <<>>
    /\ csvData' = [i \in DOMAIN players |-> ExportRow(players[i], isPPR)]
    /\ UNCHANGED <<dashVars, errorToast, isPPR, activeTab, trendFilters, trendData, loading,
                   trendCalls, player_stats, draftkings_pricing, players, fpts,
                   coreVars>>

\* GET /api/stats: "Joins player_stats with draftkings_pricing"; the rows
\* returned become the rows of the grid
GetStats(season, week) ==
    /\ players' = process_stats(season, week)
    /\ fpts' = FptsColumn(players', isPPR)
    /\ UNCHANGED <<dashVars, errorToast, isPPR, activeTab, trendFilters, trendData, loading,
                   trendCalls, player_stats, draftkings_pricing, csvData,
                   coreVars>>

----------------------------------------------------------------------------
(* SpecRecon: process_stats over every small pair of tables *)

ReconWeeks == {4, 5}

\* rows of the stats feed: Ja'Marr Chase and a row whose name is missing,
\* each with no snap data, a zero-snap game or 61 snaps
ReconStatsUniverse ==
    {Strip([player_id       |-> <<id>>,
            player_name     |-> IF id = "JC" THEN <<"Ja'Marr Chase">> ELSE <<>>,
            position        |-> <<"WR">>,
            team            |-> <<"CIN">>,
            week            |-> <<w>>,
            season          |-> <<2025>>,
            receptions      |-> <<10>>,
            receiving_yards |-> <<103>>,
            snap_percentage |-> snap]) :
        id \in {"JC", "XX"}, w \in ReconWeeks, snap \in Opt({0, 61})}

\* the players of the salary feed: Ja'Marr Chase of CIN under two spellings,
\* and a player of another team who has the same name
ReconPricingPlayers ==
    {<<"Ja'Marr Chase", "CIN">>, <<"Jamarr Chase", "CIN">>,
     <<"Ja'Marr Chase", "DAL">>}

\* rows of the salary feed, the salary NULL, 0 or 9200
ReconPricingUniverse ==
    {Strip([player_name |-> <<pl[1]>>,
            team        |-> <<pl[2]>>,
            position    |-> <<"WR">>,
            week        |-> <<w>>,
            season      |-> <<2025>>,
            salary      |-> sal]) :
        pl \in ReconPricingPlayers, w \in ReconWeeks,
        sal \in Opt({0, 9200})}

\* PRIMARY KEY (player_name, week, season) of draftkings_pricing
PricingKey(dp) == <<dp.player_name, dp.week, dp.season>>

\* the draftkings_pricing tables of at most MaxPricing rows that respect the
\* primary key
PricingTables ==
    {T \in SUBSET ReconPricingUniverse :
        /\ Cardinality(T) <= MaxPricing
        /\ \A x, y \in T : PricingKey(x) = PricingKey(y) => x = y}

InitRecon ==
    /\ isPPR = TRUE
    /\ activeTab = "data-table"
    /\ trendFilters = InitTrendFilters
    /\ trendData = <<>>
    /\ loading = FALSE
    /\ trendCalls = <<>>
    /\ player_stats \in UNION {StatsTables(ReconStatsUniverse, k) : k \in 0..MaxRows}
    /\ draftkings_pricing \in PricingTables
    /\ players = <<>>
    /\ fpts = <<>>
    /\ csvData = <<>>
    /\ CoreIdle
    /\ DashIdle

NextRecon ==
    \/ \E week \in {0} \cup ReconWeeks : GetStats(2025, week)
    \/ exportData

SpecRecon == InitRecon /\ [][NextRecon]_vars

----------------------------------------------------------------------------
(* Name Normalizer.  A name is a sequence of one-character strings.        *)

UpperCase ==
    <<"A", "B", "C", "D", "E", "F", "G", "H", "I", "J", "K", "L", "M",
      "N", "O", "P", "Q", "R", "S", "T", "U", "V", "W", "X", "Y", "Z">>

LowerCase ==
    <<"a", "b", "c", "d", "e", "f", "g", "h", "i", "j", "k", "l", "m",
      "n", "o", "p", "q", "r", "s", "t", "u", "v", "w", "x", "y", "z">>

\* one character lower-cased
ToLower(c) ==
    IF \E i \in DOMAIN UpperCase : UpperCase[i] = c
    THEN LowerCase[CHOOSE i \in DOMAIN UpperCase : UpperCase[i] = c]
    ELSE c

\* "Lower-cases"
LowerCased(s) == [i \in DOMAIN s |-> ToLower(s[i])]

\* "strips leading/trailing whitespace"
RECURSIVE TrimLeft(_)
TrimLeft(s) ==
    IF s # <<>> /\ Head(s) = " " THEN TrimLeft(Tail(s)) ELSE s

RECURSIVE TrimRight(_)
TrimRight(s) ==
    IF s # <<>> /\ s[Len(s)] = " "
    THEN TrimRight(SubSeq(s, 1, Len(s) - 1)) ELSE s

Trim(s) == TrimRight(TrimLeft(s))

\* the generational suffixes "Jr.", "Jr", "Sr.", "Sr", "II", "III", "IV", "V",
\* lower-cased (the comparison is case-insensitive)
GenerationalSuffixes ==
    {<<"j", "r", ".">>, <<"j", "r">>, <<"s", "r", ".">>, <<"s", "r">>,
     <<"i", "i">>, <<"i", "i", "i">>, <<"i", "v">>, <<"v">>}

\* place of the last space of s, 0 when s has none
LastSpace(s) ==
    IF \E i \in DOMAIN s : s[i] = " "
    THEN CHOOSE i \in DOMAIN s :
            s[i] = " " /\ \A j \in DOMAIN s : s[j] = " " => j <= i
    ELSE 0

\* "Removes generational suffixes as a trailing token ... (case-insensitive,
\* optionally preceded by a comma)": when the last whitespace-separated token
\* of the lower-cased, trimmed name s is a suffix and is not the whole name,
\* the token goes, with the whitespace and the comma before it
StripSuffix(s) ==
    LET k     == LastSpace(s)
        tok   == SubSeq(s, k + 1, Len(s))
        head  == TrimRight(SubSeq(s, 1, k - 1))
        head2 == IF head # <<>> /\ head[Len(head)] = ","
                 THEN TrimRight(SubSeq(head, 1, Len(head) - 1)) ELSE head
    IN  IF k > 0 /\ tok \in GenerationalSuffixes /\ head2 # <<>>
        THEN head2 ELSE s

\* "Removes punctuation that varies across sources: periods, apostrophes,
\* hyphens ... removed entirely" ("D.J. Moore" and "DJ Moore" normalize
\* identically)
RemovePunctuation(s) ==
    LET letter(c) == c \notin {".", "'", "-"} IN SelectSeq(s, letter)

\* the failure of normalize on an empty name; never a valid key
InvalidNameError == <<"InvalidNameError">>

\* normalize(rawName): the steps of the contract in the order it lists them
normalize(name) ==
    LET t == Trim(LowerCased(name))
        r == RemovePunctuation(StripSuffix(t))
    IN  IF t = <<>> \/ r = <<>> THEN InvalidNameError ELSE r

\* the names the feeds use for the players of the model
ChrisGodwin == <<"C", "h", "r", "i", "s", " ", "G", "o", "d", "w", "i", "n">>
DJMoore == <<"D", "J", " ", "M", "o", "o", "r", "e">>
DotJMoore == <<"D", ".", "J", ".", " ", "M", "o", "o", "r", "e">>
JaMarrChase ==
    <<"J", "a", "'", "M", "a", "r", "r", " ", "C", "h", "a", "s", "e">>
JamarrChase == <<"J", "a", "m", "a", "r", "r", " ", "C", "h", "a", "s", "e">>

\* names without a generational suffix
BaseNames == {ChrisGodwin, DJMoore, DotJMoore, JaMarrChase, JamarrChase}

\* generational suffixes as the feeds write them, in several letter cases
SuffixTokens ==
    {<<"J", "r", ".">>, <<"J", "r">>, <<"S", "r", ".">>, <<"S", "r">>,
     <<"I", "I">>, <<"I", "I", "I">>, <<"I", "V">>, <<"V">>,
     <<"J", "R", ".">>, <<"j", "r">>, <<"s", "R">>, <<"i", "i", "i">>,
     <<"i", "v">>, <<"v">>}

\* a suffix appended to a name: after a space or after a comma and a space
SuffixSeparators == {<<" ">>, <<",", " ">>}

\* n followed by the suffix s in one of its forms
SuffixForms(n, s) == {n \o sep \o s : sep \in SuffixSeparators}

\* punctuation a feed may put right before a suffix token
Before == {<<>>, <<"-">>}

\* punctuation a feed may put right after a suffix token
After == {<<>>, <<".">>}

\* the names made of a name of N and one more trailing token: a suffix, bare
\* or with punctuation before or after it
RECURSIVE WithTokens(_, _)
WithTokens(N, k) ==
    IF k = 0 THEN N
    ELSE LET prev == WithTokens(N, k - 1)
         IN  prev \cup {n \o sep \o pre \o s \o post :
                            n \in prev, sep \in SuffixSeparators,
                            pre \in Before, s \in SuffixTokens,
                            post \in After}

\* the names handed to normalize: padded or not, with up to k trailing
\* tokens
NameUniverse(k) ==
    LET names == WithTokens(BaseNames, k)
    IN  names \cup {<<" ">> \o n \o <<" ">> : n \in BaseNames} \cup {<<>>, <<" ">>}

\* normalize applied to rawName, then to its own result
Normalize ==
    /\ Len(normalized) < MaxPasses
    /\ LET input == IF normalized = <<>> THEN rawName
                    ELSE normalized[Len(normalized)]
       IN  /\ input # InvalidNameError
           /\ normalized' = Append(normalized, normalize(input))
    /\ UNCHANGED <<dashVars, errorToast, isPPR, activeTab, trendFilters, trendData, loading,
                   trendCalls, player_stats, draftkings_pricing, players,
                   fpts, csvData, rawName, mappingCache, matchResult,
                   cacheOps>>

----------------------------------------------------------------------------
(* Mapping Cache and Identity Matcher *)

\* lookup's result when the cache has no mapping
None == [none |-> TRUE]

\* the key of a NameMapping: the raw name variant and the team
CacheKey(m) == <<m.rawName, m.team>>

\* lookup(rawName, team, week, season) in the mappings of cache
LookupIn(cache, raw, team, week, season) ==
    IF \E m \in cache : CacheKey(m) = <<raw, team>>
    THEN (CHOOSE m \in cache : CacheKey(m) = <<raw, team>>).identity
    ELSE None

\* lookup(rawName, team, week, season) -> CanonicalIdentity | None
lookup(raw, team, week, season) ==
    LookupIn(mappingCache, raw, team, week, season)

\* mutant: record inserts the mapping without removing the one it replaces
UpsertInserting(cache, raw, team, identity) ==
    cache \cup {[rawName |-> raw, team |-> team, identity |-> identity]}

\* the mappings after record(rawName, team, identity): an upsert, a mapping
\* already there for the raw name is overwritten
Upsert(cache, raw, team, identity) ==
    {m \in cache : CacheKey(m) # <<raw, team>>}
        \cup {[rawName |-> raw, team |-> team, identity |-> identity]}

\* record(rawName, team, canonicalIdentity), run to completion
Record(raw, team, identity) ==
    /\ cacheOps = {}
    /\ mappingCache' = Upsert(mappingCache, raw, team, identity)
    /\ UNCHANGED <<dashVars, errorToast, isPPR, activeTab, trendFilters, trendData, loading,
                   trendCalls, player_stats, draftkings_pricing, players,
                   fpts, csvData, rawName, normalized, matchResult,
                   cacheOps>>

\* CanonicalIdentity of a stats record: (normalized name, team, position)
Identity(r) ==
    [name |-> normalize(r.player_name), team |-> r.team,
     position |-> r.position]

\* mutant: the pool scoped by week and season only
ScopedPoolAnyTeam(candidate, pool) ==
    {pool[i] : i \in {j \in DOMAIN pool :
        /\ pool[j].week = candidate.week
        /\ pool[j].season = candidate.season}}

\* "all RawStatRecords sharing the same (team, week, season) as the
\* candidate"
ScopedPool(candidate, pool) ==
    {pool[i] : i \in {j \in DOMAIN pool :
        /\ pool[j].team = candidate.team
        /\ pool[j].week = candidate.week
        /\ pool[j].season = candidate.season}}

\* the records of the scoped pool whose normalized name is the candidate's
Hits(candidate, pool) ==
    {r \in ScopedPool(candidate, pool) :
        /\ normalize(r.player_name) # InvalidNameError
        /\ normalize(r.player_name) = normalize(candidate.player_name)}

\* mutant: the cache is consulted only to break a tie
matchAutomaticFirst(candidate, pool) ==
    LET mapped == lookup(candidate.player_name, candidate.team,
                         candidate.week, candidate.season)
        hits   == Hits(candidate, pool)
    IN  IF Cardinality(hits) = 1
        THEN [kind |-> "Matched", confidence |-> "Exact",
              identity |-> Identity(CHOOSE r \in hits : TRUE)]
        ELSE IF hits = {} THEN [kind |-> "Unmatched"]
        ELSE IF mapped # None
        THEN [kind |-> "Matched", identity |-> mapped,
              confidence |-> "Mapped"]
        ELSE [kind |-> "Ambiguous"]

\* match(candidate, pool) -> MatchResult: the Mapping Cache first, then
\* exact normalized-name matching in the scoped pool
match(candidate, pool) ==
    LET mapped == lookup(candidate.player_name, candidate.team,
                         candidate.week, candidate.season)
        hits   == Hits(candidate, pool)
    IN  IF mapped # None
        THEN [kind |-> "Matched", identity |-> mapped,
              confidence |-> "Mapped"]
        ELSE IF Cardinality(hits) = 1
        THEN [kind |-> "Matched", confidence |-> "Exact",
              identity |-> Identity(CHOOSE r \in hits : TRUE)]
        ELSE IF hits = {} THEN [kind |-> "Unmatched"]
        ELSE [kind |-> "Ambiguous"]

\* the stats records the candidate's value is attached to
AttachedTo(candidate, pool, result) ==
    IF result.kind = "Matched"
    THEN {r \in ScopedPool(candidate, pool) : Identity(r) = result.identity}
    ELSE {}

\* one secondary record matched against the stats of its reconciliation;
\* the result replaces the last one of the candidate's week
Match(candidate) ==
    /\ LET result == match(candidate, player_stats)
       IN  matchResult' =
              {m \in matchResult : m.candidate.week # candidate.week}
                \cup {[candidate |-> candidate, result |-> result,
                       attached |-> AttachedTo(candidate, player_stats,
                                               result)]}
    /\ UNCHANGED <<dashVars, errorToast, isPPR, activeTab, trendFilters, trendData, loading,
                   trendCalls, player_stats, draftkings_pricing, players,
                   fpts, csvData, rawName, normalized, mappingCache,
                   cacheOps>>

----------------------------------------------------------------------------
(* SpecMatch: one reconciliation pass matching snap records of week 5     *)
(* against small pools while mappings are recorded                        *)

ChrisGodwinJr == ChrisGodwin \o <<" ", "J", "r", ".">>

\* stats records named Chris Godwin or Chris Godwin Jr.: WR or TE of TB in
\* week 5, a WR of TB in week 6, and a WR of DAL in week 5
MatchStatsUniverse ==
    {[player_name |-> n, team |-> "TB", position |-> p, week |-> 5,
      season |-> 2025] :
        n \in {ChrisGodwin, ChrisGodwinJr}, p \in {"WR", "TE"}}
    \cup {[player_name |-> ChrisGodwin, team |-> "TB", position |-> "WR",
           week |-> 6, season |-> 2025],
          [player_name |-> ChrisGodwin, team |-> "DAL", position |-> "WR",
           week |-> 5, season |-> 2025]}

\* the stats tables of at most k records of U
Pools(U, k) == {S \in SUBSET U : Cardinality(S) <= k}

\* snap records of the secondary feed
SnapRecord(n, team, week) ==
    [player_name |-> n, team |-> team, week |-> week, season |-> 2025,
     snap_count |-> 72]

\* salary records of the secondary feed
SalaryRecord(n, team, week) ==
    [player_name |-> n, team |-> team, week |-> week, season |-> 2025,
     salary |-> 9200]

MatchCandidates ==
    {SnapRecord(n, t, 5) : n \in {ChrisGodwin, ChrisGodwinJr},
                           t \in {"TB", "DAL"}}

\* the identities a curator can map a name to
MatchIdentities == {Identity(r) : r \in MatchStatsUniverse}

\* the raw-name variants a curator records mappings for
MatchKeys ==
    {<<ChrisGodwin, "TB">>, <<ChrisGodwinJr, "TB">>, <<ChrisGodwin, "DAL">>}

InitMatch ==
    /\ isPPR = TRUE
    /\ activeTab = "data-table"
    /\ trendFilters = InitTrendFilters
    /\ trendData = <<>>
    /\ loading = FALSE
    /\ trendCalls = <<>>
    /\ player_stats \in {SetToSeq(S) : S \in Pools(MatchStatsUniverse, MaxRows)}
    /\ draftkings_pricing = {}
    /\ players = <<>>
    /\ fpts = <<>>
    /\ csvData = <<>>
    /\ CoreIdle
    /\ DashIdle

NextMatch ==
    \/ \E c \in MatchCandidates : Match(c)
    \/ \E k \in MatchKeys, id \in MatchIdentities : Record(k[1], k[2], id)

SpecMatch == InitMatch /\ [][NextMatch]_vars

----------------------------------------------------------------------------
(* SpecCache: two weeks reconciled concurrently while corrections are     *)
(* recorded.  A record() call waits until no other writer holds the       *)
(* cache, reads the mappings, and installs its upsert in one step.        *)

\* mutant: a writer never waits
CanWriteAlways(ops) == TRUE

\* "writes to the Mapping Cache must be serialized (single-writer or
\* locked)": a writer may start when no other record() call is writing
CanWrite(ops) == \A op \in ops : op.phase # "writing"

\* record(rawName, team, identity) is called
RecordCall(raw, team, identity) ==
    /\ Cardinality(cacheOps) < MaxWriters
    /\ cacheOps' = cacheOps \cup
            {[rawName |-> raw, team |-> team, identity |-> identity,
              phase |-> "waiting"]}
    /\ cacheOps' # cacheOps
    /\ UNCHANGED <<dashVars, errorToast, isPPR, activeTab, trendFilters, trendData, loading,
                   trendCalls, player_stats, draftkings_pricing, players,
                   fpts, csvData, rawName, normalized, mappingCache,
                   matchResult>>

\* the call op becomes the writer and reads the mappings
RecordBegin(op) ==
    /\ op \in cacheOps
    /\ op.phase = "waiting"
    /\ CanWrite(cacheOps)
    /\ cacheOps' = (cacheOps \ {op}) \cup
            {[rawName |-> op.rawName, team |-> op.team,
              identity |-> op.identity, phase |-> "writing",
              read |-> mappingCache]}
    /\ UNCHANGED <<dashVars, errorToast, isPPR, activeTab, trendFilters, trendData, loading,
                   trendCalls, player_stats, draftkings_pricing, players,
                   fpts, csvData, rawName, normalized, mappingCache,
                   matchResult>>

\* the writer installs the mappings it read with its own upserted, and
\* returns
RecordCommit(op) ==
    /\ op \in cacheOps
    /\ op.phase = "writing"
    /\ mappingCache' = Upsert(op.read, op.rawName, op.team, op.identity)
    /\ cacheOps' = cacheOps \ {op}
    /\ UNCHANGED <<dashVars, errorToast, isPPR, activeTab, trendFilters, trendData, loading,
                   trendCalls, player_stats, draftkings_pricing, players,
                   fpts, csvData, rawName, normalized, matchResult>>

\* the stats of the two weeks reconciled
CacheStats ==
    <<[player_name |-> ChrisGodwinJr, team |-> "TB", position |-> "WR",
       week |-> 5, season |-> 2025],
      [player_name |-> ChrisGodwinJr, team |-> "TB", position |-> "WR",
       week |-> 6, season |-> 2025]>>

CacheWeeks == {5, 6}

\* the snap records matched, one per week
CacheCandidates == {SnapRecord(ChrisGodwin, "TB", w) : w \in CacheWeeks}

\* the corrections recorded
CacheKeys == {<<ChrisGodwin, "TB">>, <<ChrisGodwinJr, "TB">>}

CacheIdentities ==
    {[name |-> normalize(ChrisGodwin), team |-> "TB", position |-> p] :
        p \in {"WR", "TE"}}

InitCache ==
    /\ isPPR = TRUE
    /\ activeTab = "data-table"
    /\ trendFilters = InitTrendFilters
    /\ trendData = <<>>
    /\ loading = FALSE
    /\ trendCalls = <<>>
    /\ player_stats = CacheStats
    /\ draftkings_pricing = {}
    /\ players = <<>>
    /\ fpts = <<>>
    /\ csvData = <<>>
    /\ CoreIdle
    /\ DashIdle

NextCache ==
    \/ \E k \in CacheKeys, id \in CacheIdentities : RecordCall(k[1], k[2], id)
    \/ \E op \in cacheOps : RecordBegin(op)
    \/ \E op \in cacheOps : RecordCommit(op)
    \/ \E c \in CacheCandidates : Match(c)

SpecCache == InitCache /\ [][NextCache]_vars

----------------------------------------------------------------------------
(* SpecNorm: one raw name normalized, then normalized again.              *)
(* SpecSuffix: the same for a stats record whose name is a base name with *)
(* one suffix, and a secondary record that has the base name matched      *)
(* against it                                                             *)

\* the stats record of the player whose name the feed writes as name
StatsRecordNamed(name) ==
    [player_name |-> name, team |-> "TB", position |-> "WR", week |-> 5,
     season |-> 2025]

\* the names made of the base name n and one generational suffix
Suffixed(n) == UNION {SuffixForms(n, s) : s \in SuffixTokens}

\* the stats feed holding one record, named by a name of N
InitNames(N) ==
    /\ isPPR = TRUE
    /\ activeTab = "data-table"
    /\ trendFilters = InitTrendFilters
    /\ trendData = <<>>
    /\ loading = FALSE
    /\ trendCalls = <<>>
    /\ rawName \in N
    /\ player_stats = <<StatsRecordNamed(rawName)>>
    /\ draftkings_pricing = {}
    /\ players = <<>>
    /\ fpts = <<>>
    /\ csvData = <<>>
    /\ normalized = <<>>
    /\ mappingCache = {}
    /\ matchResult = {}
    /\ cacheOps = {}
    /\ DashIdle

\* a snap or salary record named by the base name, matched against the
\* stats record that carries the suffix
MatchBaseName ==
    /\ matchResult = {}
    /\ normalized = <<>>
    /\ \E n \in BaseNames :
        /\ rawName \in Suffixed(n)
        /\ \/ Match(SnapRecord(n, "TB", 5))
           \/ Match(SalaryRecord(n, "TB", 5))

InitNorm == InitNames(NameUniverse(MaxSuffixes))

NextNorm == Normalize

SpecNorm == InitNorm /\ [][NextNorm]_vars

\* the base names, bare and with one suffix
SuffixedNames == BaseNames \cup UNION {Suffixed(n) : n \in BaseNames}

\* the draftkings_pricing row of the player whose name the salary feed
\* writes as name
PricingRowNamed(name) ==
    [player_name |-> name, team |-> "TB", position |-> "WR", week |-> 5,
     season |-> 2025, salary |-> 9200]

\* the stats feed holding one record named by a name of SuffixedNames, the
\* salary feed holding the record of the same player under the base name
InitSuffix ==
    /\ isPPR = TRUE
    /\ activeTab = "data-table"
    /\ trendFilters = InitTrendFilters
    /\ trendData = <<>>
    /\ loading = FALSE
    /\ trendCalls = <<>>
    /\ rawName \in SuffixedNames
    /\ player_stats = <<StatsRecordNamed(rawName)>>
    /\ draftkings_pricing =
            {PricingRowNamed(n) : n \in {b \in BaseNames :
                                            rawName \in {b} \cup Suffixed(b)}}
    /\ players = <<>>
    /\ fpts = <<>>
    /\ csvData = <<>>
    /\ normalized = <<>>
    /\ mappingCache = {}
    /\ matchResult = {}
    /\ cacheOps = {}
    /\ DashIdle

NextSuffix ==
    \/ Normalize
    \/ MatchBaseName
    \/ GetStats(2025, 5)

SpecSuffix == InitSuffix /\ [][NextSuffix]_vars

----------------------------------------------------------------------------
(* The flat table: filters, players fetches, detail panel, refresh *)

\* the values of the week select after 'all': (i + 1).toString(), i < 18
WeekValues ==
    <<"1", "2", "3", "4", "5", "6", "7", "8", "9", "10", "11", "12", "13",
      "14", "15", "16", "17", "18">>

\* parseInt of a value of the week select other than 'all'
parseInt(s) == CHOOSE n \in DOMAIN WeekValues : WeekValues[n] = s

\* GET /api/players: the joined rows of the season that agree with every
\* week, team, position and player_name parameter the request carries; a
\* parameter that is no value of its column ('all', '') agrees with no row
PlayersResponse(params) ==
    LET named == {"team", "position", "player_name"} \cap DOMAIN params
        ok(row) ==
            /\ "week" \in DOMAIN params =>
                  /\ \E n \in DOMAIN WeekValues : WeekValues[n] = params.week
                  /\ "week" \in DOMAIN row
                  /\ row.week = parseInt(params.week)
            /\ \A f \in named : f \in DOMAIN row /\ row[f] = params[f]
    IN  SelectSeq(process_stats(SeasonNumber(params.season), 0), ok)

\* cleanParams of fetchPlayersWithFilters: season and limit, and each other
\* filter only when it is set (`filterParams.x && filterParams.x !== 'all'`)
cleanParams(filterParams) ==
    LET set == {f \in {"week", "position", "team"} :
                    filterParams[f] # "" /\ filterParams[f] # "all"}
               \cup {f \in {"minSalary", "minSnaps"} : filterParams[f] # ""}
    IN  [f \in {"season", "limit"} \cup set |->
            IF f = "limit" THEN 1000 ELSE filterParams[f]]

\* the params of fetchPlayers: { ...filters, limit: 1000 }
SpreadParams(f) ==
    [g \in DOMAIN f \cup {"limit"} |-> IF g = "limit" THEN 1000 ELSE f[g]]

\* fetchPlayers / fetchPlayersWithFilters up to the await: setLoading(true)
\* and the request is sent
StartPlayersFetch(fn, params) ==
    /\ loading' = TRUE
    /\ playersCalls' = Append(playersCalls, [fn |-> fn, params |-> params])

\* s without its c-th element
Without(s, c) == SubSeq(s, 1, c - 1) \o SubSeq(s, c + 1, Len(s))

\* handleFilterChange(filterType, value), from the selects of the data-table
\* tab: setFilters(newFilters) and setTimeout(fetchPlayersWithFilters(newFilters),
\* 300); the render that follows runs the effect on [filters,
\* selectedPlayerType], which calls fetchPlayersWithFilters()
handleFilterChange(filterType, value) ==
    /\ activeTab = "data-table"
    /\ filters[filterType] # value
    /\ Len(playersCalls) < MaxInFlight
    /\ Len(timers) < MaxInFlight
    /\ filters' = [filters EXCEPT ![filterType] = value]
    /\ timers' = Append(timers, filters')
    /\ StartPlayersFetch("fetchPlayersWithFilters", cleanParams(filters'))
    /\ UNCHANGED <<isPPR, activeTab, trendFilters, trendData, trendCalls,
                   player_stats, draftkings_pricing, players, fpts, csvData,
                   coreVars, searchTerm, selectedPlayer, playerDetailOpen,
                   playerGameHistory, refreshing, historyCalls, refreshCalls,
                   errorToast>>

\* the oldest timer of handleFilterChange fires (the delays are equal, so
\* the timers fire in the order they were set):
\* fetchPlayersWithFilters(newFilters)
TimerFires ==
    /\ timers # <<>>
    /\ Len(playersCalls) < MaxInFlight
    /\ timers' = Tail(timers)
    /\ StartPlayersFetch("fetchPlayersWithFilters", cleanParams(Head(timers)))
    /\ UNCHANGED <<isPPR, activeTab, trendFilters, trendData, trendCalls,
                   player_stats, draftkings_pricing, players, fpts, csvData,
                   coreVars, filters, searchTerm, selectedPlayer,
                   playerDetailOpen, playerGameHistory, refreshing,
                   historyCalls, refreshCalls, errorToast>>

\* a players request is answered: setPlayers(response.data || []) and, in
\* finally, setLoading(false); a fetchPlayers call then returns to the
\* refreshData that awaits it, whose finally is setRefreshing(false)
FetchPlayersDone(c) ==
    /\ c \in DOMAIN playersCalls
    /\ players' = PlayersResponse(playersCalls[c].params)
    /\ fpts' = FptsColumn(players', isPPR)
    /\ loading' = FALSE
    /\ playersCalls' = Without(playersCalls, c)
    /\ refreshing' = IF playersCalls[c].fn = "fetchPlayers"
                     THEN FALSE ELSE refreshing
    /\ UNCHANGED <<isPPR, activeTab, trendFilters, trendData, trendCalls,
                   player_stats, draftkings_pricing, csvData, coreVars,
                   filters, searchTerm, selectedPlayer, playerDetailOpen,
                   playerGameHistory, timers, historyCalls, refreshCalls,
                   errorToast>>

\* a players request is rejected: setPlayers([]), in fetchPlayersWithFilters
\* toast.error('Error loading player data'), and setLoading(false); a
\* fetchPlayers call then returns to refreshData: setRefreshing(false)
FetchPlayersFailed(c) ==
    /\ c \in DOMAIN playersCalls
    /\ players' = <<>>
    /\ fpts' = <<>>
    /\ errorToast' = IF playersCalls[c].fn = "fetchPlayersWithFilters"
                     THEN "Error loading player data" ELSE errorToast
    /\ loading' = FALSE
    /\ playersCalls' = Without(playersCalls, c)
    /\ refreshing' = IF playersCalls[c].fn = "fetchPlayers"
                     THEN FALSE ELSE refreshing
    /\ UNCHANGED <<isPPR, activeTab, trendFilters, trendData, trendCalls,
                   player_stats, draftkings_pricing, csvData, coreVars,
                   filters, searchTerm, selectedPlayer, playerDetailOpen,
                   playerGameHistory, timers, historyCalls, refreshCalls>>

\* s.toLowerCase().includes(term.toLowerCase()) on the strings of the model
includes(s, term) == term = "" \/ (term = "jones" /\ s = "Daniel Jones")

\* filteredPlayers: the rows of players that the search keeps
\* (selectedPlayerType stays 'all': setSelectedPlayerType is never called)
filteredPlayers ==
    LET keep(player) ==
            \/ includes(player.player_name, searchTerm)
            \/ includes(player.team, searchTerm)
            \/ includes(player.position, searchTerm)
    IN  SelectSeq(players, keep)

\* the search input of the data-table tab: setSearchTerm(e.target.value)
SetSearchTerm(text) ==
    /\ activeTab = "data-table"
    /\ text # searchTerm
    /\ searchTerm' = text
    /\ UNCHANGED <<isPPR, activeTab, trendFilters, trendData, loading,
                   trendCalls, player_stats, draftkings_pricing, players, fpts,
                   csvData, coreVars, filters, selectedPlayer,
                   playerDetailOpen, playerGameHistory, refreshing,
                   playersCalls, timers, historyCalls, refreshCalls,
                   errorToast>>

\* mutant: Escape also puts the scoring mode back to full PPR
EscapeResettingScoring ==
    /\ searchTerm' = ""
    /\ playerDetailOpen' = FALSE
    /\ isPPR' = TRUE
    /\ fpts' = FptsColumn(players, isPPR')
    /\ UNCHANGED <<activeTab, trendFilters, trendData, loading,
                   trendCalls, player_stats, draftkings_pricing, players,
                   csvData, coreVars, filters, selectedPlayer,
                   playerGameHistory, refreshing, playersCalls, timers,
                   historyCalls, refreshCalls, errorToast>>

\* the Escape key: setSearchTerm('') and setPlayerDetailOpen(false)
Escape ==
    /\ searchTerm' = ""
    /\ playerDetailOpen' = FALSE
    /\ UNCHANGED <<isPPR, activeTab, trendFilters, trendData, loading,
                   trendCalls, player_stats, draftkings_pricing, players, fpts,
                   csvData, coreVars, filters, selectedPlayer,
                   playerGameHistory, refreshing, playersCalls, timers,
                   historyCalls, refreshCalls, errorToast>>

\* handlePlayerClick(player) on a row of the grid: setSelectedPlayer,
\* setPlayerDetailOpen(true), and fetchPlayerGameHistory(player) up to its
\* await; the call keeps the filters of the render of the click
handlePlayerClick(player) ==
    /\ activeTab = "data-table"
    /\ \E i \in DOMAIN filteredPlayers : filteredPlayers[i] = player
    /\ Len(historyCalls) < MaxInFlight
    /\ selectedPlayer' = player
    /\ playerDetailOpen' = TRUE
    /\ historyCalls' = Append(historyCalls,
                              [player |-> player, filters |-> filters])
    /\ UNCHANGED <<isPPR, activeTab, trendFilters, trendData, loading,
                   trendCalls, player_stats, draftkings_pricing, players, fpts,
                   csvData, coreVars, filters, searchTerm, playerGameHistory,
                   refreshing, playersCalls, timers, refreshCalls, errorToast>>

\* x put into s, which is in descending week order, before the first game
\* of a smaller week
RECURSIVE InsertByWeek(_, _)
InsertByWeek(s, x) ==
    IF s = <<>> THEN <<x>>
    ELSE IF Head(s).week >= x.week
         THEN <<Head(s)>> \o InsertByWeek(Tail(s), x)
         ELSE <<x>> \o s

\* .sort((a, b) => b.week - a.week)
RECURSIVE SortByWeekDesc(_)
SortByWeekDesc(arr) ==
    IF arr = <<>> THEN <<>>
    ELSE InsertByWeek(SortByWeekDesc(SubSeq(arr, 1, Len(arr) - 1)),
                      arr[Len(arr)])

\* games of fetchPlayerGameHistory(player) in a render with filters f, from
\* the rows data of the response: filter, sort, and slice(0, 10)
Games(player, f, data) ==
    LET currentWeek == IF f.week = "all" THEN 18 ELSE parseInt(f.week)
        keep(game) == /\ game.player_name = player.player_name
                      /\ (f.week = "all" \/ game.week <= currentWeek)
        sorted == SortByWeekDesc(SelectSeq(data, keep))
    IN  SubSeq(sorted, 1, IF Len(sorted) < 10 THEN Len(sorted) ELSE 10)

\* the request of fetchPlayerGameHistory is answered: setPlayerGameHistory(games)
HistoryDone(c) ==
    /\ c \in DOMAIN historyCalls
    /\ LET call == historyCalls[c]
           data == PlayersResponse([season      |-> call.filters.season,
                                    limit       |-> 50,
                                    player_name |-> call.player.player_name])
       IN  playerGameHistory' = Games(call.player, call.filters, data)
    /\ historyCalls' = Without(historyCalls, c)
    /\ UNCHANGED <<isPPR, activeTab, trendFilters, trendData, loading,
                   trendCalls, player_stats, draftkings_pricing, players, fpts,
                   csvData, coreVars, filters, searchTerm, selectedPlayer,
                   playerDetailOpen, refreshing, playersCalls, timers,
                   refreshCalls, errorToast>>

\* the request of fetchPlayerGameHistory is rejected: setPlayerGameHistory([])
HistoryFailed(c) ==
    /\ c \in DOMAIN historyCalls
    /\ playerGameHistory' = <<>>
    /\ historyCalls' = Without(historyCalls, c)
    /\ UNCHANGED <<isPPR, activeTab, trendFilters, trendData, loading,
                   trendCalls, player_stats, draftkings_pricing, players, fpts,
                   csvData, coreVars, filters, searchTerm, selectedPlayer,
                   playerDetailOpen, refreshing, playersCalls, timers,
                   refreshCalls, errorToast>>

\* the Sync Data button is disabled={refreshing}; the Cmd/Ctrl+R handler
\* calls refreshData() whatever refreshing is
CanRefresh(via) == via = "button" => ~refreshing

\* refreshData up to the await of the POST: setRefreshing(true).  The
\* keyboard handler is memoised with no dependencies (useCallback(..., [])),
\* so its refreshData, and the fetchPlayers that will call, are those of the
\* first render, whose filters are the initial ones; the button's are those
\* of the current render
refreshData(via) ==
    /\ CanRefresh(via)
    /\ Len(refreshCalls) < MaxInFlight
    /\ refreshing' = TRUE
    /\ refreshCalls' = Append(refreshCalls,
                              [filters |-> IF via = "shortcut"
                                           THEN InitFilters ELSE filters])
    /\ UNCHANGED <<isPPR, activeTab, trendFilters, trendData, loading,
                   trendCalls, player_stats, draftkings_pricing, players, fpts,
                   csvData, coreVars, filters, searchTerm, selectedPlayer,
                   playerDetailOpen, playerGameHistory, playersCalls, timers,
                   historyCalls, errorToast>>

\* the outcomes of the POST /api/refresh-data
RefreshOutcomes == {"success", "unsuccessful", "rejected"}

\* the POST of a refreshData call is answered.  response.data.success:
\* fetchSummary() and then fetchPlayers() up to its await; otherwise
\* toast.error and, in finally, setRefreshing(false)
RefreshResponded(c, outcome) ==
    /\ c \in DOMAIN refreshCalls
    /\ refreshCalls' = Without(refreshCalls, c)
    /\ IF outcome = "success"
       THEN /\ Len(playersCalls) < MaxInFlight
            /\ StartPlayersFetch("fetchPlayers",
                                 SpreadParams(refreshCalls[c].filters))
            /\ UNCHANGED <<refreshing, errorToast>>
       ELSE /\ errorToast' = IF outcome = "unsuccessful"
                             THEN "Failed to refresh data"
                             ELSE "Failed to refresh data from NFL sources"
            /\ refreshing' = FALSE
            /\ UNCHANGED <<loading, playersCalls>>
    /\ UNCHANGED <<isPPR, activeTab, trendFilters, trendData, trendCalls,
                   player_stats, draftkings_pricing, players, fpts, csvData,
                   coreVars, filters, searchTerm, selectedPlayer,
                   playerDetailOpen, playerGameHistory, timers, historyCalls>>

----------------------------------------------------------------------------
(* SpecDash: the mounted dashboard over the player_stats table of Spec *)

\* the two effects of the first render, `[]` and `[filters,
\* selectedPlayerType]`, have each called fetchPlayersWithFilters()
Mounted ==
    LET call == [fn |-> "fetchPlayersWithFilters",
                 params |-> cleanParams(InitFilters)]
    IN  /\ filters = InitFilters
        /\ searchTerm = ""
        /\ selectedPlayer = Null
        /\ playerDetailOpen = FALSE
        /\ playerGameHistory = <<>>
        /\ refreshing = FALSE
        /\ playersCalls = <<call, call>>
        /\ timers = <<>>
        /\ historyCalls = <<>>
        /\ refreshCalls = <<>>
        /\ errorToast = ""
        /\ loading = TRUE

InitDash ==
    /\ isPPR = TRUE
    /\ activeTab = "data-table"
    /\ trendFilters = InitTrendFilters
    /\ trendData = <<>>
    /\ trendCalls = <<>>
    /\ player_stats = SeedStats
    /\ draftkings_pricing = {}
    /\ players = <<>>
    /\ fpts = <<>>
    /\ csvData = <<>>
    /\ rawName = <<>>
    /\ normalized = <<>>
    /\ mappingCache = {}
    /\ matchResult = {}
    /\ cacheOps = {}
    /\ Mounted

\* the weeks picked in the week select
DashWeeks == {"all", "4", "5"}

\* the requests awaiting a response and the timers not yet fired
Pending ==
    Len(playersCalls) + Len(timers) + Len(historyCalls) + Len(refreshCalls)
        + Len(trendCalls)

\* one operation of the user or one response of the backend; the user
\* starts an operation that sends requests only when nothing is outstanding
\* (overlapping requests are the subject of SpecFilter, SpecHistory and
\* SpecRefresh)
NextDash ==
    \/ \E tab \in {"data-table", "trend-tool"} :
          (tab = "trend-tool" => Pending = 0) /\ SetActiveTab(tab)
    \/ \E value \in ScoringValues : ToggleScoring(value)
    \/ \E week \in DashWeeks : Pending = 0 /\ handleFilterChange("week", week)
    \/ TimerFires
    \/ \E c \in DOMAIN playersCalls : FetchPlayersDone(c)
    \/ \E c \in DOMAIN playersCalls : FetchPlayersFailed(c)
    \/ \E text \in {"", "jones"} : SetSearchTerm(text)
    \/ Escape
    \/ \E i \in DOMAIN players : Pending = 0 /\ handlePlayerClick(players[i])
    \/ \E c \in DOMAIN historyCalls : HistoryDone(c)
    \/ \E c \in DOMAIN historyCalls : HistoryFailed(c)
    \/ \E via \in {"button", "shortcut"} : Pending = 0 /\ refreshData(via)
    \/ \E c \in DOMAIN refreshCalls, outcome \in RefreshOutcomes :
          RefreshResponded(c, outcome)
    \/ \E c \in DOMAIN trendCalls : FetchTrendDataDone(c)
    \/ \E c \in DOMAIN trendCalls : FetchTrendDataFailed(c)

SpecDash == InitDash /\ [][NextDash]_vars

----------------------------------------------------------------------------
(* SpecFilter: week filter changes and the players requests they start *)

NextFilter ==
    \/ \E week \in DashWeeks : handleFilterChange("week", week)
    \/ TimerFires
    \/ \E c \in DOMAIN playersCalls : FetchPlayersDone(c)
    \/ \E c \in DOMAIN playersCalls : FetchPlayersFailed(c)

SpecFilter == InitDash /\ [][NextFilter]_vars

----------------------------------------------------------------------------
(* SpecHistory: player clicks, the game-history requests they start, and   *)
(* week filter changes                                                    *)

NextHistory ==
    \/ \E week \in DashWeeks : handleFilterChange("week", week)
    \/ TimerFires
    \/ \E c \in DOMAIN playersCalls : FetchPlayersDone(c)
    \/ \E i \in DOMAIN players : handlePlayerClick(players[i])
    \/ \E c \in DOMAIN historyCalls : HistoryDone(c)
    \/ \E c \in DOMAIN historyCalls : HistoryFailed(c)

SpecHistory == InitDash /\ [][NextHistory]_vars

----------------------------------------------------------------------------
(* SpecRefresh: the Sync button, the Cmd/Ctrl+R shortcut and their requests *)

NextRefresh ==
    \/ \E via \in {"button", "shortcut"} : refreshData(via)
    \/ \E c \in DOMAIN refreshCalls, outcome \in RefreshOutcomes :
          RefreshResponded(c, outcome)
    \/ \E week \in DashWeeks : handleFilterChange("week", week)
    \/ TimerFires
    \/ \E c \in DOMAIN playersCalls : FetchPlayersDone(c)
    \/ \E c \in DOMAIN playersCalls : FetchPlayersFailed(c)

SpecRefresh == InitDash /\ [][NextRefresh]_vars

----------------------------------------------------------------------------
(* Claims about scoring, checked under SpecScore *)

\* a counting stat of a record, 0 when the record does not have it
Stat(record, f) == IF f \in DOMAIN record THEN record[f] ELSE 0

\* the scoring formula of the specification, in hundredths of a point
ScoreFormula(record, fullPPR) ==
    4 * Stat(record, "passing_yards") + 400 * Stat(record, "passing_tds")
    - 100 * Stat(record, "interceptions")
    + 10 * Stat(record, "rushing_yards") + 600 * Stat(record, "rushing_tds")
    + 10 * Stat(record, "receiving_yards") + 600 * Stat(record, "receiving_tds")
    + (IF fullPPR THEN 100 ELSE 50) * Stat(record, "receptions")
    - 100 * Stat(record, "fumbles_lost")

\* the number a returned score string denotes, in hundredths
ReturnedHundredths(s) == 10 * parseFloatOrZero(s)

\* C1: for every record and either scoring mode, the value returned by
\* calculateFantasyPoints is the value of the scoring formula, absent
\* counting stats counting as 0.
C1_ScoreIsFormula ==
    \A i \in DOMAIN fpts :
        ReturnedHundredths(fpts[i]) = ScoreFormula(players[i], isPPR)

\* C2: when the scoring mode changes, every score changes by exactly half a
\* point per reception: full-PPR score minus half-PPR score = 0.5 * receptions
\* (5 * receptions tenths), so a record without receptions keeps its score.
C2_PPRDelta ==
    [][\A i \in DOMAIN fpts \cap DOMAIN fpts' :
          /\ (isPPR /\ ~isPPR') =>
                parseFloatOrZero(fpts[i]) - parseFloatOrZero(fpts'[i])
                    = 5 * Stat(players[i], "receptions")
          /\ (~isPPR /\ isPPR') =>
                parseFloatOrZero(fpts'[i]) - parseFloatOrZero(fpts[i])
                    = 5 * Stat(players[i], "receptions")]_vars

\* C2 witness: a row with one reception and a score that is not a whole
\* number of tenths before rounding has been re-scored in half-PPR mode
C2_Witness ==
    /\ ~isPPR
    /\ fpts # <<>>
    /\ Stat(players[1], "receptions") = 1
    /\ Stat(players[1], "passing_yards") = 3
    /\ parseFloatOrZero(fpts[1]) = 6

----------------------------------------------------------------------------
(* Claims about the trend tool *)

\* the week entries of trendData as sets
TrendEntries == {trendData[i] : i \in DOMAIN trendData}

\* C3: scores are not rounded before presentation: every returned score and
\* every fantasy_points value stored per week by the trend aggregator is the
\* unrounded value of the scoring formula (passing_yards = 1 alone gives
\* 0.04, not 0.0).
C3_ScoreUnrounded ==
    /\ \A i \in DOMAIN players :
          ReturnedHundredths(calculateFantasyPoints(players[i], isPPR))
              = ScoreFormula(players[i], isPPR)
    /\ \A e \in TrendEntries : \A w \in DOMAIN e.weeks :
          10 * e.weeks[w].fantasy_points = ScoreFormula(e.weeks[w], isPPR)

\* C4: once no fetch is pending, every fantasy-point value held for the flat
\* table and for the trend view is the score of its row under the current
\* scoring mode.
C4_PointsFollowScoringMode ==
    trendCalls = <<>> =>
        /\ \A i \in DOMAIN fpts :
              fpts[i] = calculateFantasyPoints(players[i], isPPR)
        /\ \A e \in TrendEntries : \A w \in DOMAIN e.weeks :
              e.weeks[w].fantasy_points
                  = parseFloatOrZero(calculateFantasyPoints(e.weeks[w], isPPR))

\* priority of a position in the order QB, RB, WR, TE (smaller comes first)
PositionPriority(position) ==
    CASE position = "QB" -> 1
      [] position = "RB" -> 2
      [] position = "WR" -> 3
      [] position = "TE" -> 4

\* alphabetical order of two names of the model
NameLeq(a, b) ==
    \E i, j \in DOMAIN NamesInOrder :
        NamesInOrder[i] = a /\ NamesInOrder[j] = b /\ i <= j

CanonicalName(name) ==
    IF name = "Odell Beckham Jr." THEN "Odell Beckham" ELSE name

\* C6: rows of one player whose names differ only by a generational suffix
\* are grouped into a single series.
C6_OneSeriesPerPlayer ==
    \A i, j \in DOMAIN trendData :
        ( /\ CanonicalName(trendData[i].player_name)
                = CanonicalName(trendData[j].player_name)
          /\ trendData[i].position = trendData[j].position
          /\ trendData[i].team = trendData[j].team ) => i = j

\* C7: a fetchTrendData call whose startWeek is greater than its endWeek is
\* rejected: it never completes as a successful call that sets trendData.
C7_InvalidRangeRejected ==
    [][\A c \in DOMAIN trendCalls :
          trendCalls[c].filters.startWeek > trendCalls[c].filters.endWeek
              => ~FetchTrendDataDone(c)]_vars

\* the rows of player_stats a call with filters f asks for
RequestedRows(f) ==
    {player_stats[i] : i \in {k \in DOMAIN player_stats :
        /\ player_stats[k].team = f.team
        /\ player_stats[k].season = SeasonNumber(f.season)
        /\ player_stats[k].week >= f.startWeek
        /\ player_stats[k].week <= f.endWeek}}

SeriesOfPlayer(e, row) ==
    /\ CanonicalName(e.player_name) = CanonicalName(row.player_name)
    /\ e.position = row.position
    /\ e.team = row.team

\* C22: the week map of a series is sparse and has no placeholders: when a
\* call completes, a series has an entry for a week w of the window if and
\* only if a record of that player exists in week w.
C22_SparseWeekMap ==
    [][\A c \in DOMAIN trendCalls :
          FetchTrendDataDone(c) =>
            LET f == trendCalls[c].filters IN
            \A i \in DOMAIN trendData' : \A w \in f.startWeek .. f.endWeek :
                w \in DOMAIN trendData'[i].weeks
                    <=> \E row \in RequestedRows(f) :
                            /\ SeriesOfPlayer(trendData'[i], row)
                            /\ row.week = w]_vars

\* the week entry holds the record: every field of the record, as returned
Holds(entry, record) ==
    \A g \in DOMAIN record : g \in DOMAIN entry /\ entry[g] = record[g]

\* C26: when a call completes, every record returned by one of its requests
\* is the week entry, under the requested week, of the series of its
\* (player_name, position): none is lost or overwritten by another.
C26_NoRecordLost ==
    [][\A c \in DOMAIN trendCalls :
          FetchTrendDataDone(c) =>
            \A row \in RequestedRows(trendCalls[c].filters) :
                \E i \in DOMAIN trendData' :
                    /\ PlayerKey(trendData'[i]) = PlayerKey(row)
                    /\ row.week \in DOMAIN trendData'[i].weeks
                    /\ Holds(trendData'[i].weeks[row.week], row)]_vars

\* C27: a fetchTrendData call one of whose requests fails leaves trendData
\* as it was (nothing of the weeks that succeeded is stored), reports an
\* error and resets loading to false.
C27_FailedCallLeavesTrendData ==
    [][\A c \in DOMAIN trendCalls :
          FetchTrendDataFailed(c) =>
            /\ trendData' = trendData
            /\ errorToast' = "Error loading trend data"
            /\ loading' = FALSE]_vars

\* C27 witness: a call for a window that holds rows of the team has failed
C27_Witness ==
    /\ errorToast = "Error loading trend data"
    /\ trendCalls = <<>>
    /\ loading = FALSE
    /\ trendData = <<>>
    /\ RequestedRows(trendFilters) # {}

\* C23: once every fetchTrendData call has completed (none of them failed),
\* trendData is the result built for the trendFilters selected last: a call
\* that completes late never replaces the result of a newer call.
C23_LatestFiltersWin ==
    (trendCalls = <<>> /\ trendData # <<>> /\ errorToast = "") =>
        \E ppr \in BOOLEAN : trendData = BuildTrend(trendFilters, ppr)

----------------------------------------------------------------------------
(* Claims about reconciliation, checked under SpecRecon *)

\* a stats row with its name, team, week and season
ValidStatsRow(row) ==
    {"player_name", "team", "week", "season"} \subseteq DOMAIN row

\* the number of valid rows of player_stats of a season and week (0: any week)
ValidCount(season, week) ==
    Cardinality({k \in DOMAIN player_stats :
        /\ ValidStatsRow(player_stats[k])
        /\ player_stats[k].season = season
        /\ (week # 0 => player_stats[k].week = week)})

\* C9: the reconciled output has exactly one row per valid stats row,
\* whatever the salary table holds; rows of the salary feed alone add nothing.
C9_OneRowPerValidStatsRow ==
    [][\A week \in {0} \cup ReconWeeks :
          GetStats(2025, week) => Len(players') = ValidCount(2025, week)]_vars

\* C10: a row without snap data, or without a salary, is never presented as
\* 0 and never presented like a row whose snap count, or salary, is 0.
C10_AbsenceDistinctFromZero ==
    \A i \in DOMAIN players :
        LET row == players[i] IN
        /\ "snap_percentage" \notin DOMAIN row =>
              /\ DetailSnapCount(row) # 0
              /\ SnapsCell(row) # SnapsCell(With(row, "snap_percentage", 0))
              /\ TrendSnapsCell(row)
                    # TrendSnapsCell(With(row, "snap_percentage", 0))
        /\ "dk_salary" \notin DOMAIN row =>
              /\ ExportRow(row, isPPR).DK_Salary # 0
              /\ TrendSalaryCell(row)
                    # TrendSalaryCell(With(row, "dk_salary", 0))

\* C11: matching is scoped to (team, week, season): a salary that process_stats
\* attached to an output row comes from a salary record of the row's own
\* team, week and season.
C11_MatchScopedToTeamWeekSeason ==
    \A i \in DOMAIN players :
        "dk_salary" \in DOMAIN players[i] =>
            \E dp \in draftkings_pricing :
                /\ SqlEq(dp, [salary |-> players[i].dk_salary], "salary")
                /\ SqlEq(dp, players[i], "team")
                /\ SqlEq(dp, players[i], "week")
                /\ SqlEq(dp, players[i], "season")

----------------------------------------------------------------------------
(* Claims about the Name Normalizer, checked under SpecNorm (C15) and      *)
(* SpecSuffix (C16)                                                       *)

\* C15: normalization is idempotent: normalizing a normalized name gives
\* the same name back, for every valid name, also one ending in several
\* suffix tokens or with punctuation around its suffix.
C15_NormalizeIdempotent ==
    Len(normalized) >= 2 => normalized[2] = normalized[1]

----------------------------------------------------------------------------
(* Claims about the Identity Matcher and the Mapping Cache, checked under  *)
(* SpecMatch                                                               *)

\* the stats records of the candidate's team, week and season that have the
\* candidate's normalized name
SameNameInScope(c) ==
    {i \in DOMAIN player_stats :
        /\ player_stats[i].team = c.team
        /\ player_stats[i].week = c.week
        /\ player_stats[i].season = c.season
        /\ normalize(player_stats[i].player_name) = normalize(c.player_name)}

\* the entry a match of candidate c has just written
NewEntry(c) == CHOOSE m \in matchResult' : m.candidate = c

\* the cache holds a mapping for the candidate's raw name
Mapped(c) == lookup(c.player_name, c.team, c.week, c.season) # None

\* C12 as stated: match returns Matched exactly when the scoped pool has
\* exactly one stats record with the candidate's normalized name, Unmatched
\* exactly when it has none, and Ambiguous, with the value attached to no
\* record, when it has several and the cache holds no mapping.
C12_MatchByCount ==
    [][\A c \in MatchCandidates : (matchResult' # matchResult /\ Match(c)) =>
          LET n == Cardinality(SameNameInScope(c))
              m == NewEntry(c)
          IN  /\ m.result.kind = "Matched" <=> n = 1
              /\ m.result.kind = "Unmatched" <=> n = 0
              /\ (n > 1 /\ ~Mapped(c)) =>
                    (m.result.kind = "Ambiguous" /\ m.attached = {})]_vars

\* C12 amended: when the Mapping Cache holds no mapping for the candidate's
\* raw name and team, match returns Matched exactly when the scoped pool has
\* exactly one stats record with the candidate's normalized name, Unmatched
\* exactly when it has none, and Ambiguous when it has several, and then the
\* value is attached to no record.
C12_MatchByCountUnmapped ==
    [][\A c \in MatchCandidates :
          (matchResult' # matchResult /\ Match(c) /\ ~Mapped(c)) =>
          LET n == Cardinality(SameNameInScope(c))
              m == NewEntry(c)
          IN  /\ m.result.kind = "Matched" <=> n = 1
              /\ m.result.kind = "Unmatched" <=> n = 0
              /\ m.result.kind = "Ambiguous" <=> n > 1
              /\ n > 1 => m.attached = {}
              /\ n = 1 => m.attached =
                    {player_stats[i] : i \in SameNameInScope(c)}]_vars

\* C12 witness: with no mapping recorded, a candidate was matched against a
\* pool holding two records of its name in its scope, and came out
\* Ambiguous
C12_Witness ==
    /\ mappingCache = {}
    /\ \E m \in matchResult :
        /\ m.result.kind = "Ambiguous"
        /\ Cardinality(SameNameInScope(m.candidate)) = 2

\* C13: once a mapping for a raw-name variant is recorded, every later match
\* of that raw-name variant resolves to the mapped identity, whatever
\* automatic matching alone would give.
C13_MappingTakesPrecedence ==
    [][\A c \in MatchCandidates :
          (matchResult' # matchResult /\ Match(c) /\ Mapped(c)) =>
          /\ NewEntry(c).result.kind = "Matched"
          /\ NewEntry(c).result.identity =
                lookup(c.player_name, c.team, c.week, c.season)]_vars

\* C13 witness: a match resolved to the mapped identity although exactly one
\* stats record of another identity has the candidate's name in its scope
C13_Witness ==
    \E m \in matchResult :
        /\ Mapped(m.candidate)
        /\ m.result.kind = "Matched"
        /\ m.result.identity = lookup(m.candidate.player_name,
                m.candidate.team, m.candidate.week, m.candidate.season)
        /\ \E i \in SameNameInScope(m.candidate) :
            /\ SameNameInScope(m.candidate) = {i}
            /\ Identity(player_stats[i]) # m.result.identity

\* C14: record is an idempotent upsert with last-write-wins: after
\* record(rawName, team, B) every lookup of (rawName, team, any week, any
\* season) returns B, whatever was mapped before; the mappings of the other
\* keys are unchanged; recording the same mapping once more would leave the
\* cache as it is.
C14_RecordIsUpsert ==
    [][\A k \in MatchKeys, id \in MatchIdentities : Record(k[1], k[2], id) =>
          /\ \A w \in 1..18, season \in {2024, 2025} :
                LookupIn(mappingCache', k[1], k[2], w, season) = id
          /\ \A k2 \in MatchKeys \ {k} :
                LookupIn(mappingCache', k2[1], k2[2], 5, 2025)
                    = LookupIn(mappingCache, k2[1], k2[2], 5, 2025)
          /\ Cardinality(mappingCache') <= Cardinality(MatchKeys)
          /\ Upsert(mappingCache', k[1], k[2], id) = mappingCache']_vars

\* C14 witness: every raw-name variant has a mapping, and two variants of
\* the same team map to different identities
C14_Witness ==
    /\ \A k \in MatchKeys : lookup(k[1], k[2], 5, 2025) # None
    /\ lookup(ChrisGodwin, "TB", 5, 2025)
            # lookup(ChrisGodwinJr, "TB", 5, 2025)

\* C16: suffix equivalence: for every base name n and every generational
\* suffix s, in any letter case and after a space or a comma, the name
\* n + s normalizes to what n normalizes to, and so a snap or salary record
\* named n matches the stats record named n + s of its team, week and
\* season: the matcher returns Matched for it, and the salary join attaches
\* its salary to that stats row.
C16_SuffixEquivalence ==
    \A n \in BaseNames :
        rawName \in Suffixed(n) =>
            /\ normalized # <<>> => normalized[1] = normalize(n)
            /\ \A m \in matchResult :
                /\ m.candidate.player_name = n
                /\ m.result.kind = "Matched"
                /\ m.result.identity = Identity(player_stats[1])
                /\ m.attached = {player_stats[1]}
            /\ \A i \in DOMAIN players :
                /\ "dk_salary" \in DOMAIN players[i]
                /\ players[i].dk_salary = PricingRowNamed(n).salary

----------------------------------------------------------------------------
(* Claims about reconciliation end to end, checked under SpecRecon *)

\* the tables of the end-to-end scenario: one stats row "Ja'Marr Chase", CIN,
\* week 5, 2025, 103 receiving yards, 10 receptions, no snap data; one
\* salary row "Jamarr Chase", CIN, week 5, 2025, 9200
ScenarioTables ==
    /\ player_stats =
          <<[player_id |-> "JC", player_name |-> "Ja'Marr Chase",
             position |-> "WR", team |-> "CIN", week |-> 5,
             season |-> 2025, receptions |-> 10, receiving_yards |-> 103]>>
    /\ draftkings_pricing =
          {[player_name |-> "Jamarr Chase", team |-> "CIN",
            position |-> "WR", week |-> 5, season |-> 2025,
            salary |-> 9200]}

\* C17: in the end-to-end scenario the reconciled output is exactly one
\* record, with salary 9200, no snap count, and a full-PPR score of 20.3.
C17_JoinAcrossPunctuation ==
    (ScenarioTables /\ players # <<>>) =>
        /\ Len(players) = 1
        /\ "dk_salary" \in DOMAIN players[1]
        /\ players[1].dk_salary = 9200
        /\ "snap_percentage" \notin DOMAIN players[1]
        /\ "snap_count" \notin DOMAIN players[1]
        /\ calculateFantasyPoints(players[1], TRUE)
                = [neg |-> FALSE, whole |-> 20, tenth |-> 3]

\* C18: reconciliation completes with partial success: a stats row missing
\* its name, team, week or season is left out of the output, and every valid
\* stats row of the requested season and week still has its output row.
C18_MalformedRowsSkipped ==
    [][\A week \in {0} \cup ReconWeeks : GetStats(2025, week) =>
          /\ \A i \in DOMAIN players' : ValidStatsRow(players'[i])
          /\ \A k \in DOMAIN player_stats :
                (/\ ValidStatsRow(player_stats[k])
                 /\ player_stats[k].season = 2025
                 /\ week # 0 => player_stats[k].week = week)
                => \E i \in DOMAIN players' :
                      StatsKey(players'[i]) = StatsKey(player_stats[k])]_vars

----------------------------------------------------------------------------
(* Claims about concurrent use of the Mapping Cache, checked under         *)
(* SpecCache                                                               *)

\* the record() calls that are writing
Writing(ops) == {op \in ops : op.phase = "writing"}

\* C20: while several weeks are reconciled concurrently and corrections are
\* recorded, cache writes are serialized: at most one record() call is
\* writing at a time, and each write is applied to the mappings as they are
\* when it lands, so no earlier update is lost; a lookup made during a
\* write sees the mappings from before the write, a later one the mappings
\* after it; a week's match changes nothing but that week's own result.
C20_CacheWritesSerialized ==
    [][/\ Cardinality(Writing(cacheOps')) <= 1
       /\ \A op \in cacheOps : RecordCommit(op) =>
            /\ mappingCache' = Upsert(mappingCache, op.rawName, op.team,
                                      op.identity)
            /\ \A k \in CacheKeys \ {<<op.rawName, op.team>>} :
                  LookupIn(mappingCache', k[1], k[2], 5, 2025)
                      = lookup(k[1], k[2], 5, 2025)
       /\ (\A op \in cacheOps : ~RecordCommit(op)) =>
            mappingCache' = mappingCache
       /\ \A c \in CacheCandidates : Match(c) =>
            /\ \A m \in matchResult :
                  m.candidate.week # c.week => m \in matchResult'
            /\ Mapped(c) =>
                  NewEntry(c).result.identity =
                      lookup(c.player_name, c.team, c.week, c.season)
            /\ ~Mapped(c) => NewEntry(c).result.confidence = "Exact"]_vars

\* C20 witness: a record() call is writing while another waits, a mapping
\* has already been recorded, and both weeks have been matched, one of them
\* through the cache and the other before the mapping was there
C20_Witness ==
    /\ \E op \in cacheOps : op.phase = "writing"
    /\ \E op \in cacheOps : op.phase = "waiting"
    /\ mappingCache # {}
    /\ \E m1, m2 \in matchResult :
        /\ m1.candidate.week = 5 /\ m1.result.confidence = "Mapped"
        /\ m2.candidate.week = 6 /\ m2.result.confidence = "Exact"

----------------------------------------------------------------------------
(* Claims about the dashboard's state, checked under SpecDash *)

\* C21: the scoring mode is maintained during filtering and navigation: no
\* operation other than the scoring toggle (filter change, search, tab
\* switch, player click, refresh, data load, Escape) changes isPPR.
C21_ScoringModeMaintained ==
    [][isPPR' # isPPR => \E value \in ScoringValues : ToggleScoring(value)]_vars

\* C21 witness: half PPR is still selected after a filter change, a player
\* click, Escape, a refresh that failed, a tab switch and a trend load
C21_Witness ==
    /\ isPPR = FALSE
    /\ filters.week = "all"
    /\ selectedPlayer # Null
    /\ playerDetailOpen = FALSE
    /\ errorToast = "Failed to refresh data"
    /\ activeTab = "trend-tool"
    /\ trendData # <<>>
    /\ Pending = 0

----------------------------------------------------------------------------
(* Claims about overlapping requests of the flat table *)

\* C24: once every players request started by the filter changes (the one of
\* the effect and the one of the 300 ms timer) has been answered, players is
\* the response for the latest filters, whatever the order of the answers.
C24_PlayersForLatestFilters ==
    (playersCalls = <<>> /\ timers = <<>> /\ errorToast = "") =>
        players = PlayersResponse(cleanParams(filters))

\* C25: loading is true whenever a players fetch or a trend fetch is in
\* flight, also when several of them overlap.
C25_LoadingWhileInFlight ==
    (playersCalls # <<>> \/ trendCalls # <<>>) => loading = TRUE

\* C28: once every game-history request has been answered,
\* playerGameHistory holds games of the selected player only: at most 10,
\* each with that player's name and a week up to the week filter, in
\* descending week order.
C28_HistoryOfSelectedPlayer ==
    (historyCalls = <<>> /\ selectedPlayer # Null) =>
        /\ Len(playerGameHistory) <= 10
        /\ \A i \in DOMAIN playerGameHistory :
              /\ playerGameHistory[i].player_name = selectedPlayer.player_name
              /\ filters.week # "all"
                    => playerGameHistory[i].week <= parseInt(filters.week)
        /\ \A i, j \in DOMAIN playerGameHistory :
              i < j => playerGameHistory[i].week >= playerGameHistory[j].week

\* the filters that a request must leave out when they are not set
OptionalFilters == {"week", "position", "team", "minSalary", "minSnaps"}

\* C29: no request for the players list carries 'all' or an empty string as
\* week, position, team, minSalary or minSnaps.
C29_NoPlaceholderParams ==
    \A c \in DOMAIN playersCalls :
        \A f \in OptionalFilters \cap DOMAIN playersCalls[c].params :
            playersCalls[c].params[f] \notin {"all", ""}

\* the refreshData calls that have not returned: those awaiting the POST and
\* those awaiting their fetchPlayers
RefreshesInFlight ==
    Len(refreshCalls)
        + Cardinality({c \in DOMAIN playersCalls :
                          playersCalls[c].fn = "fetchPlayers"})

\* C30: at most one refresh is in flight at any time, and refreshing is true
\* exactly while a refresh is in flight.
C30_SingleRefresh ==
    /\ RefreshesInFlight <= 1
    /\ refreshing <=> RefreshesInFlight > 0

====
